---- MODULE Spec2Model ----
(***************************************************************************)
(* orgpy: classification of the entries of a directory by extension and   *)
(* their relocation into category subdirectories (src/orgpy.py).          *)
(*                                                                         *)
(* Python strings are sequences of one-character strings, so that          *)
(* str.lower, str.replace, os.path.splitext and sorted() are computed      *)
(* character by character.  JSON values are records [t, s, items].         *)
(* The filesystem is a function from paths (sequences of names, relative   *)
(* to the directory being organized) to entries.                           *)
(***************************************************************************)
EXTENDS Integers, Sequences, FiniteSets, TLC

(* ---------------------------------------------------------------------- *)
(* Bounds of the model                                                     *)
(* ---------------------------------------------------------------------- *)
MaxListLen == 2
MaxRuns == 2

(* ---------------------------------------------------------------------- *)
(* Characters and strings                                                  *)
(* ---------------------------------------------------------------------- *)
\* The characters used, in code-point order.
Alphabet ==
    << ".", "/",
       "0", "1", "2", "3", "4", "5", "6", "7", "8", "9",
       "A", "B", "C", "D", "E", "F", "G", "H", "I", "J", "K", "L", "M",
       "N", "O", "P", "Q", "R", "S", "T", "U", "V", "W", "X", "Y", "Z",
       "_",
       "a", "b", "c", "d", "e", "f", "g", "h", "i", "j", "k", "l", "m",
       "n", "o", "p", "q", "r", "s", "t", "u", "v", "w", "x", "y", "z" >>

Ord(c) == CHOOSE i \in 1..Len(Alphabet) : Alphabet[i] = c

IsUpper(c) == Ord(c) >= Ord("A") /\ Ord(c) <= Ord("Z")

\* str.lower() on one character
LowerChar(c) == IF IsUpper(c) THEN Alphabet[Ord(c) - Ord("A") + Ord("a")] ELSE c

\* str.lower()
str_lower(s) == [i \in 1..Len(s) |-> LowerChar(s[i])]

\* os.sep on the host (POSIX)
os_sep == "/"

\* str.replace(old, new) for one-character old and new
str_replace(s, old, new) == [i \in 1..Len(s) |-> IF s[i] = old THEN new ELSE s[i]]

\* str.rfind(c): the last index of c in s, 0 when there is none
rfind(s, c) ==
    IF \E i \in 1..Len(s) : s[i] = c
    THEN CHOOSE i \in 1..Len(s) : s[i] = c /\ \A j \in (i+1)..Len(s) : s[j] # c
    ELSE 0

\* needle in hay, for strings
IsSubstring(needle, hay) ==
    \E i \in 0..(Len(hay) - Len(needle)) : SubSeq(hay, i + 1, i + Len(needle)) = needle

\* os.path.splitext: the extension starts at the last dot of the last path
\* component, unless that component has only leading dots before it.
splitext(p) ==
    LET sepIndex == rfind(p, os_sep)
        dotIndex == rfind(p, ".")
    IN  IF dotIndex > sepIndex /\ \E k \in (sepIndex + 1)..(dotIndex - 1) : p[k] # "."
        THEN << SubSeq(p, 1, dotIndex - 1), SubSeq(p, dotIndex, Len(p)) >>
        ELSE << p, << >> >>

\* s < t in the order sorted() uses on strings (code points, then length)
RECURSIVE str_less(_, _)
str_less(s, t) ==
    IF t = << >> THEN FALSE
    ELSE IF s = << >> THEN TRUE
    ELSE IF s[1] # t[1] THEN Ord(s[1]) < Ord(t[1])
    ELSE str_less(Tail(s), Tail(t))

\* sorted(files): a stable insertion of each element in turn
RECURSIVE insert_sorted(_, _)
insert_sorted(x, xs) ==
    IF xs = << >> THEN << x >>
    ELSE IF str_less(x, xs[1]) THEN << x >> \o xs
    ELSE << xs[1] >> \o insert_sorted(x, Tail(xs))

RECURSIVE sorted(_)
sorted(xs) ==
    IF xs = << >> THEN << >>
    ELSE insert_sorted(xs[Len(xs)], sorted(SubSeq(xs, 1, Len(xs) - 1)))

(* ---------------------------------------------------------------------- *)
(* JSON values, as json.load returns them                                  *)
(* ---------------------------------------------------------------------- *)
J_str(s) == [t |-> "str", s |-> s, items |-> << >>]
J_int == [t |-> "int", s |-> << >>, items |-> << >>]
J_null == [t |-> "null", s |-> << >>, items |-> << >>]
J_list(vals) ==
    [t |-> "list", s |-> << >>,
     items |-> [i \in 1..Len(vals) |-> [k |-> << >>, val |-> vals[i]]]]
J_dict(pairs) ==
    [t |-> "dict", s |-> << >>,
     items |-> [i \in 1..Len(pairs) |-> [k |-> pairs[i][1], val |-> pairs[i][2]]]]
StrList(strs) == J_list([i \in 1..Len(strs) |-> J_str(strs[i])])

\* dict operations on the item sequence of a dict (insertion ordered)
dict_has(items, key) == \E i \in 1..Len(items) : items[i].k = key
dict_get(items, key) == items[CHOOSE i \in 1..Len(items) : items[i].k = key].val
dict_set(items, key, v) ==
    IF dict_has(items, key)
    THEN [i \in 1..Len(items) |->
            IF items[i].k = key THEN [k |-> key, val |-> v] ELSE items[i]]
    ELSE Append(items, [k |-> key, val |-> v])

(* ---------------------------------------------------------------------- *)
(* The built-in category table                                             *)
(* ---------------------------------------------------------------------- *)
DEFAULT_FILE_CATEGORIES ==
  J_dict(
  <<
      <<<<"D","o","c","s">>,
        StrList(<<<<".","m","d">>,
          <<".","t","x","t">>>>)>>,
      <<<<"D","o","c","s","/","P","D","F">>,
        StrList(<<<<".","p","d","f">>>>)>>,
      <<<<"D","o","c","s","/","W","o","r","d">>,
        StrList(<<<<".","d","o","c">>,
          <<".","d","o","c","x">>,
          <<".","o","d","t">>,
          <<".","r","t","f">>>>)>>,
      <<<<"D","o","c","s","/","S","h","e","e","t","s">>,
        StrList(<<<<".","o","d","s">>,
          <<".","x","l","s">>,
          <<".","x","l","s","m">>,
          <<".","x","l","s","x">>>>)>>,
      <<<<"D","o","c","s","/","P","r","e","s","e","n","t","a","t","i","o","n","s">>,
        StrList(<<<<".","k","e","y">>,
          <<".","o","d","p">>,
          <<".","p","p","s">>,
          <<".","p","p","t">>,
          <<".","p","p","t","x">>>>)>>,
      <<<<"I","m","a","g","e","s">>,
        StrList(<<<<".","a","i">>,
          <<".","b","m","p">>,
          <<".","g","i","f">>,
          <<".","i","c","o">>,
          <<".","j","p","e","g">>,
          <<".","j","p","g">>,
          <<".","p","n","g">>,
          <<".","p","s">>,
          <<".","p","s","d">>,
          <<".","s","v","g">>,
          <<".","t","i","f">>,
          <<".","t","i","f","f">>,
          <<".","w","e","b","p">>>>)>>,
      <<<<"A","u","d","i","o">>,
        StrList(<<<<".","a","i","f">>,
          <<".","c","d","a">>,
          <<".","m","i","d">>,
          <<".","m","p","3">>,
          <<".","m","p","a">>,
          <<".","o","g","g">>,
          <<".","w","a","v">>,
          <<".","w","m","a">>,
          <<".","w","p","l">>>>)>>,
      <<<<"V","i","d","e","o","s">>,
        StrList(<<<<".","3","g","2">>,
          <<".","3","g","p">>,
          <<".","a","v","i">>,
          <<".","f","l","v">>,
          <<".","h","2","6","4">>,
          <<".","m","4","v">>,
          <<".","m","k","v">>,
          <<".","m","o","v">>,
          <<".","m","p","4">>,
          <<".","m","p","g">>,
          <<".","r","m">>,
          <<".","s","w","f">>,
          <<".","v","o","b">>,
          <<".","w","m","v">>>>)>>,
      <<<<"A","r","c","h","i","v","e","s">>,
        StrList(<<<<".","7","z">>,
          <<".","a","r","j">>,
          <<".","b","z","2">>,
          <<".","g","z">>,
          <<".","l","z","4">>,
          <<".","r","a","r">>,
          <<".","t","a","r">>,
          <<".","x","z">>,
          <<".","z">>,
          <<".","z","i","p">>,
          <<".","z","s","t","d">>>>)>>,
      <<<<"P","r","o","g","r","a","m","s">>,
        StrList(<<<<".","a","p","k">>,
          <<".","b","i","n">>,
          <<".","d","e","b">>,
          <<".","e","x","e">>,
          <<".","j","a","r">>,
          <<".","m","s","i">>,
          <<".","r","p","m">>>>)>>,
      <<<<"C","o","d","e">>,
        StrList(<<<<".","c">>,
          <<".","c","p","p">>,
          <<".","j","a","v","a">>,
          <<".","p","y">>,
          <<".","j","s">>,
          <<".","c","l","a","s","s">>,
          <<".","h">>,
          <<".","s","h">>,
          <<".","b","a","t">>,
          <<".","c","s","s">>,
          <<".","g","o">>,
          <<".","r","s">>,
          <<".","c","s">>,
          <<".","s","w","i","f","t">>,
          <<".","r">>,
          <<".","p","h","p">>,
          <<".","d","a","r","t">>,
          <<".","k","t">>,
          <<".","m","a","t">>,
          <<".","p","l">>,
          <<".","r","b">>,
          <<".","s","c","a","l","a">>>>)>>,
      <<<<"C","o","d","e","/","M","a","r","k","u","p">>,
        StrList(<<<<".","h","t","m","l">>,
          <<".","x","m","l">>,
          <<".","x","h","t","m","l">>,
          <<".","m","h","t","m","l">>>>)>>,
      <<<<"C","o","d","e","/","D","a","t","a","b","a","s","e">>,
        StrList(<<<<".","s","q","l">>,
          <<".","d","b">>,
          <<".","j","s","o","n">>,
          <<".","c","s","v">>>>)>>
  >>
  ).items

(* ---------------------------------------------------------------------- *)
(* Configuration: load_config, merge_categories, build_extension_map       *)
(* ---------------------------------------------------------------------- *)
KEY_file_categories ==
    <<"f","i","l","e","_","c","a","t","e","g","o","r","i","e","s">>

EmptyConfig == J_dict(<< >>)

\* The configuration written by create_default_config and read back.
default_config == J_dict(<< << KEY_file_categories,
                              [t |-> "dict", s |-> << >>,
                               items |-> DEFAULT_FILE_CATEGORIES] >> >>)

\* A configuration file: missing, unreadable (OSError on open), garbage
\* (json.JSONDecodeError) or holding a JSON value.
CfgMissing == [state |-> "missing", value |-> J_null]
CfgUnreadable == [state |-> "unreadable", value |-> J_null]
CfgGarbage == [state |-> "garbage", value |-> J_null]
CfgJson(v) == [state |-> "json", value |-> v]

\* open(file) followed by json.load, under the except clause of the loaders.
read_json(cf) == IF cf.state = "json" THEN cf.value ELSE EmptyConfig

\* create_default_config: writes the default configuration unless the
\* directory or the file cannot be written (can_write = FALSE).
create_default_config(cf, can_write) ==
    IF can_write THEN CfgJson(default_config) ELSE cf

\* load_config: [config, file], the file as left on disk.
load_config(cf, can_write) ==
    IF cf.state # "missing"
    THEN [config |-> read_json(cf), file |-> cf]
    ELSE LET made == create_default_config(cf, can_write)
         IN  [config |-> read_json(made), file |-> made]

\* load_config_from_path
load_config_from_path(cf) == read_json(cf)

\* 'file_categories' in config, by the type of config: "yes", "no", or the
\* exception raised.
contains_key(config) ==
    CASE config.t = "dict" ->
           IF dict_has(config.items, KEY_file_categories) THEN "yes" ELSE "no"
      [] config.t = "list" ->
           IF \E i \in 1..Len(config.items) :
                 config.items[i].val = J_str(KEY_file_categories)
           THEN "yes" ELSE "no"
      [] config.t = "str" ->
           IF IsSubstring(KEY_file_categories, config.s) THEN "yes" ELSE "no"
      [] OTHER -> "TypeError"

\* A merge that adds the user's extensions to the category's own.
RECURSIVE merge_items_extend(_, _)
merge_items_extend(merged, user_items) ==
    IF user_items = << >> THEN merged
    ELSE LET k == user_items[1].k
             v == user_items[1].val
             both == dict_has(merged, k) /\ dict_get(merged, k).t = "list" /\ v.t = "list"
         IN  merge_items_extend(
                dict_set(merged, k,
                         IF both
                         THEN [v EXCEPT !.items = dict_get(merged, k).items \o @]
                         ELSE v),
                Tail(user_items))

RECURSIVE merge_items(_, _)
merge_items(merged, user_items) ==
    IF user_items = << >> THEN merged
    ELSE merge_items(dict_set(merged, user_items[1].k, user_items[1].val),
                     Tail(user_items))

\* merge_categories, given the built-in table as it stands: [err, val,
\* defaults]; err is "" or the exception raised, val the merged table (the
\* item sequence of a dict), defaults the built-in table as the call leaves
\* it (merged is a copy, so the assignments do not reach it).
merge_categories(defaults, config) ==
    LET has == contains_key(config)
    IN  CASE has = "TypeError" ->
               [err |-> "TypeError", val |-> << >>, defaults |-> defaults]
          [] has = "no" -> [err |-> "", val |-> defaults, defaults |-> defaults]
          [] has = "yes" /\ config.t # "dict" ->
               \* config['file_categories'] on a list or a string
               [err |-> "TypeError", val |-> << >>, defaults |-> defaults]
          [] OTHER ->
               LET user == dict_get(config.items, KEY_file_categories)
               IN  IF user.t # "dict"
                   THEN \* .items() on a value that is no dict
                        [err |-> "AttributeError", val |-> << >>,
                         defaults |-> defaults]
                   ELSE [err |-> "",
                         val |-> merge_items(defaults, user.items),
                         defaults |-> defaults]

\* for ext in extensions: the values iterated, by the type of extensions.
iterate(v) ==
    CASE v.t = "list" -> [err |-> "", val |-> [i \in 1..Len(v.items) |-> v.items[i].val]]
      [] v.t = "dict" -> [err |-> "", val |-> [i \in 1..Len(v.items) |-> J_str(v.items[i].k)]]
      [] v.t = "str"  -> [err |-> "", val |-> [i \in 1..Len(v.s) |-> J_str(<< v.s[i] >>)]]
      [] OTHER -> [err |-> "TypeError", val |-> << >>]

\* An index in which the first category to claim an extension keeps it.
RECURSIVE map_extensions_first_wins(_, _, _)
map_extensions_first_wins(dm, directory, exts) ==
    IF exts = << >> THEN [err |-> "", val |-> dm]
    ELSE IF exts[1].t # "str" THEN [err |-> "AttributeError", val |-> dm]
    ELSE map_extensions_first_wins(
            dm @@ (str_lower(exts[1].s) :> str_replace(directory, "/", os_sep)),
            directory, Tail(exts))

\* dir_map[ext.lower()] = directory.replace('/', os.sep)
RECURSIVE map_extensions(_, _, _)
map_extensions(dm, directory, exts) ==
    IF exts = << >> THEN [err |-> "", val |-> dm]
    ELSE IF exts[1].t # "str" THEN [err |-> "AttributeError", val |-> dm]
    ELSE map_extensions(
            (str_lower(exts[1].s) :> str_replace(directory, "/", os_sep)) @@ dm,
            directory, Tail(exts))

RECURSIVE map_categories(_, _)
map_categories(dm, cats) ==
    IF cats = << >> THEN [err |-> "", val |-> dm]
    ELSE LET it == iterate(cats[1].val)
         IN  IF it.err # "" THEN [err |-> it.err, val |-> dm]
             ELSE LET r == map_extensions(dm, cats[1].k, it.val)
                  IN  IF r.err # "" THEN r
                      ELSE map_categories(r.val, Tail(cats))

\* build_extension_map: [err, val]; val maps each extension to its directory.
build_extension_map(file_categories) == map_categories(<< >>, file_categories)

(* ---------------------------------------------------------------------- *)
(* Paths and the filesystem                                                *)
(* ---------------------------------------------------------------------- *)
\* os.path.join(a, b)
os_path_join(a, b) ==
    IF b # << >> /\ b[1] = os_sep THEN b
    ELSE IF a = << >> \/ a[Len(a)] = os_sep THEN a \o b
    ELSE a \o << os_sep >> \o b

\* The components of a path string, split at the separators.
RECURSIVE split_path(_)
split_path(s) ==
    LET i == IF \E j \in 1..Len(s) : s[j] = os_sep
             THEN CHOOSE j \in 1..Len(s) :
                     s[j] = os_sep /\ \A l \in 1..(j - 1) : s[l] # os_sep
             ELSE 0
    IN  IF i = 0 THEN << s >>
        ELSE << SubSeq(s, 1, i - 1) >> \o split_path(SubSeq(s, i + 1, Len(s)))

\* The entry a relative path string names, as the operating system resolves
\* it: empty components and "." components are skipped.
resolve(s) == SelectSeq(split_path(s), LAMBDA c : c # << >> /\ c # << "." >>)

Dir == [kind |-> "dir", id |-> << >>]
File(id) == [kind |-> "file", id |-> id]

IsPrefix(p, q) == Len(p) <= Len(q) /\ SubSeq(q, 1, Len(p)) = p
Parent(p) == SubSeq(p, 1, Len(p) - 1)

os_path_exists(f, s) == resolve(s) \in DOMAIN f
os_path_isfile(f, s) == resolve(s) \in DOMAIN f /\ f[resolve(s)].kind = "file"
os_path_isdir(f, s) == resolve(s) \in DOMAIN f /\ f[resolve(s)].kind = "dir"

\* os.listdir(path): the names of the immediate children.
listdir_names(f, s) ==
    { p[Len(p)] : p \in { q \in DOMAIN f : q # << >> /\ Parent(q) = resolve(s) } }

\* os.makedirs(path): creates the directory and its missing ancestors; fails
\* when the path exists or an ancestor is not a directory.
os_makedirs(f, s) ==
    LET p == resolve(s)
        prefixes == { SubSeq(p, 1, n) : n \in 0..Len(p) }
    IN  IF p \in DOMAIN f \/ \E q \in prefixes : q \in DOMAIN f /\ f[q].kind # "dir"
        THEN [ok |-> FALSE, fs |-> f]
        ELSE [ok |-> TRUE,
              fs |-> [q \in DOMAIN f \cup prefixes |->
                        IF q \in DOMAIN f THEN f[q] ELSE Dir]]

\* os.replace(src, dst): rename, replacing a file (or an empty directory,
\* for a directory) at dst.
os_replace(f, src_s, dst_s) ==
    LET src == resolve(src_s)
        dst == resolve(dst_s)
        under(p) == { q \in DOMAIN f : IsPrefix(p, q) }
        fail == [ok |-> FALSE, fs |-> f]
    IN  IF src \notin DOMAIN f \/ src = << >> \/ dst = << >> THEN fail
        ELSE IF Parent(dst) \notin DOMAIN f \/ f[Parent(dst)].kind # "dir" THEN fail
        ELSE IF src = dst THEN [ok |-> TRUE, fs |-> f]
        ELSE IF f[src].kind = "file"
        THEN IF dst \in DOMAIN f /\ f[dst].kind = "dir" THEN fail
             ELSE [ok |-> TRUE,
                   fs |-> [q \in (DOMAIN f \ {src}) \cup {dst} |->
                             IF q = dst THEN f[src] ELSE f[q]]]
        ELSE IF IsPrefix(src, dst) THEN fail
             ELSE IF dst \in DOMAIN f /\ (f[dst].kind = "file" \/ under(dst) # {dst})
             THEN fail
             ELSE [ok |-> TRUE,
                   fs |-> [q \in (DOMAIN f \ under(src))
                                 \cup { dst \o SubSeq(r, Len(src) + 1, Len(r)) : r \in under(src) } |->
                             IF IsPrefix(dst, q)
                             THEN f[src \o SubSeq(q, Len(dst) + 1, Len(q))]
                             ELSE f[q]]]

(* ---------------------------------------------------------------------- *)
(* Classifier, scanner, relocator                                          *)
(* ---------------------------------------------------------------------- *)
\* A classifier that takes the extension from the last dot of the name,
\* leading or not.
categorize_file_last_dot(f, dm, file, path) ==
    IF ~os_path_isfile(f, os_path_join(path, file)) THEN << << >>, FALSE >>
    ELSE LET d == rfind(file, ".")
             ext == IF d = 0 THEN << >> ELSE SubSeq(file, d, Len(file))
         IN  IF str_lower(ext) \in DOMAIN dm
             THEN << dm[str_lower(ext)], TRUE >>
             ELSE << << >>, FALSE >>

\* A classifier that looks the extension up as written.
categorize_file_case_sensitive(f, dm, file, path) ==
    IF ~os_path_isfile(f, os_path_join(path, file)) THEN << << >>, FALSE >>
    ELSE LET ext == splitext(file)[2]
         IN  IF ext \in DOMAIN dm THEN << dm[ext], TRUE >> ELSE << << >>, FALSE >>

\* categorize_file: << destination, is_categorized >>, against the index dm.
categorize_file(f, dm, file, path) ==
    IF ~os_path_isfile(f, os_path_join(path, file)) THEN << << >>, FALSE >>
    ELSE LET ext == splitext(file)[2]
         IN  IF str_lower(ext) \in DOMAIN dm
             THEN << dm[str_lower(ext)], TRUE >>
             ELSE << << >>, FALSE >>

\* A scanner that keeps only the last file of a category.
by_dir_append_overwrite(by_dir, dest_dir, file) ==
    IF \E i \in 1..Len(by_dir) : by_dir[i].dest = dest_dir
    THEN [i \in 1..Len(by_dir) |->
            IF by_dir[i].dest = dest_dir
            THEN [dest |-> dest_dir, files |-> << file >>]
            ELSE by_dir[i]]
    ELSE Append(by_dir, [dest |-> dest_dir, files |-> << file >>])

\* files_by_dir[dest_dir].append(file) on a defaultdict(list), kept in
\* insertion order as a sequence of [dest, files].
by_dir_append(by_dir, dest_dir, file) ==
    IF \E i \in 1..Len(by_dir) : by_dir[i].dest = dest_dir
    THEN [i \in 1..Len(by_dir) |->
            IF by_dir[i].dest = dest_dir
            THEN [dest |-> dest_dir, files |-> Append(by_dir[i].files, file)]
            ELSE by_dir[i]]
    ELSE Append(by_dir, [dest |-> dest_dir, files |-> << file >>])

RECURSIVE analyze_loop(_, _, _, _, _, _)
analyze_loop(f, dm, path, listing, by_dir, skipped) ==
    IF listing = << >> THEN [files_by_dir |-> by_dir, skipped_files |-> skipped]
    ELSE LET c == categorize_file(f, dm, listing[1], path)
         IN  IF c[2]
             THEN analyze_loop(f, dm, path, Tail(listing),
                               by_dir_append(by_dir, c[1], listing[1]), skipped)
             ELSE analyze_loop(f, dm, path, Tail(listing),
                               by_dir, Append(skipped, listing[1]))

\* analyze_files, for the order in which os.listdir yields the entries.
analyze_files(f, dm, path, listing) ==
    analyze_loop(f, dm, path, listing, << >>, << >>)

\* A scanner that swallows the error of os.listdir and reports the path as
\* skipped.
analyze_files_swallow(f, dm, path, listing, denied) ==
    IF ~os_path_isdir(f, path) \/ denied
    THEN [err |-> "", files_by_dir |-> << >>, skipped_files |-> << path >>]
    ELSE [err |-> ""] @@ analyze_files(f, dm, path, listing)

\* The call analyze_files(path) in organize: os.listdir raises when path is
\* missing, is no directory, or may not be read (denied), and nothing
\* catches it.
analyze_files_or_raise(f, dm, path, listing, denied) ==
    IF ~os_path_isdir(f, path) \/ denied
    THEN [err |-> "OSError", files_by_dir |-> << >>, skipped_files |-> << >>]
    ELSE [err |-> ""] @@ analyze_files(f, dm, path, listing)

\* The orders os.listdir may yield the children of path in.
Listings(f, path) ==
    LET names == listdir_names(f, path)
        n == Cardinality(names)
    IN  { l \in [1..n -> names] : \A i, j \in 1..n : l[i] = l[j] => i = j }

\* What the operating system may refuse during one move_file call.
Faults == {"none", "makedirs", "replace"}

\* A move by copy and delete that a failure interrupts after the copy.
move_file_torn(f, source_path, dest_path, file, fault) ==
    LET made == IF os_path_exists(f, dest_path) THEN [ok |-> TRUE, fs |-> f]
                ELSE IF fault = "makedirs" THEN [ok |-> FALSE, fs |-> f]
                ELSE os_makedirs(f, dest_path)
        r == os_replace(made.fs, os_path_join(source_path, file),
                        os_path_join(dest_path, file))
        src == resolve(os_path_join(source_path, file))
    IN  IF ~made.ok THEN [ok |-> FALSE, fs |-> made.fs]
        ELSE IF fault = "replace"
        THEN [ok |-> FALSE,
              fs |-> IF r.ok THEN (src :> made.fs[src]) @@ r.fs ELSE made.fs]
        ELSE r

\* A move that leaves the source where it is.
move_file_copy(f, source_path, dest_path, file, fault) ==
    LET made == IF os_path_exists(f, dest_path) THEN [ok |-> TRUE, fs |-> f]
                ELSE IF fault = "makedirs" THEN [ok |-> FALSE, fs |-> f]
                ELSE os_makedirs(f, dest_path)
        r == os_replace(made.fs, os_path_join(source_path, file),
                        os_path_join(dest_path, file))
        src == resolve(os_path_join(source_path, file))
    IN  IF ~made.ok \/ fault = "replace" THEN [ok |-> FALSE, fs |-> made.fs]
        ELSE IF ~r.ok THEN r
        ELSE [ok |-> TRUE, fs |-> (src :> made.fs[src]) @@ r.fs]

\* move_file: [ok, fs].  Every exception is caught and reported as FALSE;
\* directories created before the failure stay.
move_file(f, source_path, dest_path, file, fault) ==
    LET made == IF os_path_exists(f, dest_path) THEN [ok |-> TRUE, fs |-> f]
                ELSE IF fault = "makedirs" THEN [ok |-> FALSE, fs |-> f]
                ELSE os_makedirs(f, dest_path)
    IN  IF ~made.ok \/ fault = "replace" THEN [ok |-> FALSE, fs |-> made.fs]
        ELSE os_replace(made.fs, os_path_join(source_path, file),
                        os_path_join(dest_path, file))

\* The frame of a process_directory call on entry.
process_directory_enter(dest_dir, files, dry) ==
    [dest_dir |-> dest_dir, given |-> files, files |-> sorted(files), i |-> 1,
     moved_count |-> 0, failed_files |-> << >>, dry_run |-> dry,
     log |-> << >>]

\* A relocator that moves under dry_run too.
process_directory_step_no_dry_run(f, frame, path, fault) ==
    LET file == frame.files[frame.i]
        m == move_file(f, path, os_path_join(path, frame.dest_dir), file, fault)
    IN  IF m.ok
        THEN [fs |-> m.fs,
              frame |-> [frame EXCEPT !.i = @ + 1, !.moved_count = @ + 1,
                         !.log = Append(@, [file |-> file, ok |-> TRUE])]]
        ELSE [fs |-> m.fs,
              frame |-> [frame EXCEPT !.i = @ + 1,
                         !.failed_files = Append(@, file),
                         !.log = Append(@, [file |-> file, ok |-> FALSE])]]

\* A relocator that gives up the batch at the first failure.
process_directory_step_abort(f, frame, path, fault) ==
    LET file == frame.files[frame.i]
        m == move_file(f, path, os_path_join(path, frame.dest_dir), file, fault)
    IN  IF frame.dry_run \/ m.ok
        THEN [fs |-> IF frame.dry_run THEN f ELSE m.fs,
              frame |-> [frame EXCEPT !.i = @ + 1, !.moved_count = @ + 1,
                         !.log = Append(@, [file |-> file, ok |-> TRUE])]]
        ELSE [fs |-> m.fs,
              frame |-> [frame EXCEPT !.i = Len(frame.files) + 1,
                         !.failed_files = Append(@, file),
                         !.log = Append(@, [file |-> file, ok |-> FALSE])]]

\* One iteration of the loop of process_directory: [fs, frame].
process_directory_step(f, frame, path, fault) ==
    LET file == frame.files[frame.i]
    IN  IF frame.dry_run
        THEN [fs |-> f,
              frame |-> [frame EXCEPT !.i = @ + 1, !.moved_count = @ + 1,
                                      !.log = Append(@, [file |-> file, ok |-> TRUE])]]
        ELSE LET m == move_file(f, path, os_path_join(path, frame.dest_dir), file, fault)
             IN  IF m.ok
                 THEN [fs |-> m.fs,
                       frame |-> [frame EXCEPT !.i = @ + 1, !.moved_count = @ + 1,
                                  !.log = Append(@, [file |-> file, ok |-> TRUE])]]
                 ELSE [fs |-> m.fs,
                       frame |-> [frame EXCEPT !.i = @ + 1,
                                  !.failed_files = Append(@, file),
                                  !.log = Append(@, [file |-> file, ok |-> FALSE])]]

\* An orchestrator that keeps the failures out of skipped_files.
organize_accumulate_apart(total, skipped, frame) ==
    [total_files |-> total + frame.moved_count, skipped_files |-> skipped]

\* organize, after a process_directory call returned: [total_files, skipped_files].
organize_accumulate(total, skipped, frame) ==
    [total_files |-> total + frame.moved_count,
     skipped_files |-> skipped \o frame.failed_files]

\* display_summary: what the summary shows.
display_summary(total, skipped, dry) ==
    [action |-> IF dry THEN "Would organize" ELSE "Organized",
     total_files |-> total,
     skipped |-> sorted(skipped)]

(* ---------------------------------------------------------------------- *)
(* Inputs: names, configuration files, directory contents                  *)
(* ---------------------------------------------------------------------- *)
root_path == <<"d">>

a_pdf == <<"a",".","p","d","f">>
A_PDF == <<"A",".","P","D","F">>
b_txt == <<"b",".","t","x","t">>
c_xyz == <<"c",".","x","y","z">>
readme == <<"r","e","a","d","m","e">>
dot_pdf == <<".","p","d","f">>
zz_pdf == <<"z","z",".","p","d","f">>
e_tar_gz == <<"e",".","t","a","r",".","g","z">>
sub == <<"s","u","b">>
sub_a_pdf == <<"s","u","b","/","a",".","p","d","f">>
Docs == <<"D","o","c","s">>
Docs_PDF == <<"D","o","c","s","/","P","D","F">>
PDF == <<"P","D","F">>
Images == <<"I","m","a","g","e","s">>
Misc == <<"M","i","s","c">>
Here == <<".">>

\* {"file_categories": {category: extensions, ...}}
UserTable(pairs) == CfgJson(J_dict(<< << KEY_file_categories, J_dict(pairs) >> >>))

CfgEmptyObject == CfgJson(EmptyConfig)
CfgTopList == CfgJson(J_list(<< J_str(KEY_file_categories) >>))
CfgTopInt == CfgJson(J_int)
CfgTableList == CfgJson(J_dict(<< << KEY_file_categories, J_list(<< >>) >> >>))
CfgExtInt == UserTable(<< << Images, J_list(<< J_int >>) >> >>)
CfgExtsInt == UserTable(<< << Images, J_int >> >>)
CfgExtsString == UserTable(<< << Images, J_str(<<".","h","e","i","c">>) >> >>)
CfgHeic == UserTable(<< << Images, StrList(<< <<".","h","e","i","c">> >>) >> >>)
CfgImagesEmpty == UserTable(<< << Images, StrList(<< >>) >> >>)
CfgUpper == UserTable(<< << Images, StrList(<< <<".","P","D","F">>,
                                               <<".","H","e","i","c">> >>) >> >>)
CfgMisc == UserTable(<< << Misc, StrList(<< << >>, <<"t","x","t">> >>) >> >>)
CfgHere == UserTable(<< << Here, StrList(<< <<".","t","x","t">> >>) >> >>)

\* Malformed or absent configuration inputs.
MalformedConfigFiles ==
    { CfgMissing, CfgUnreadable, CfgGarbage, CfgTopList, CfgTopInt,
      CfgTableList, CfgExtInt, CfgExtsInt, CfgExtsString }

\* Well-formed configuration inputs: objects whose file_categories, when
\* present, maps category names to lists of strings.
WellFormedConfigFiles ==
    { CfgEmptyObject, CfgHeic, CfgImagesEmpty, CfgUpper, CfgMisc, CfgHere }

ConfigFiles == MalformedConfigFiles \cup WellFormedConfigFiles

\* No --config argument.
NoCustom == [state |-> "none", value |-> J_null]

\* Directory contents, as paths below the working directory.
Tree(entries) ==
    [p \in { e[1] : e \in entries } |->
        (CHOOSE e \in entries : e[1] = p)[2]]

FS_mixed ==
    Tree({ << << >>, Dir >>, << <<root_path>>, Dir >>,
           << <<root_path, a_pdf>>, File(<<root_path, a_pdf>>) >>,
           << <<root_path, A_PDF>>, File(<<root_path, A_PDF>>) >>,
           << <<root_path, readme>>, File(<<root_path, readme>>) >>,
           << <<root_path, sub>>, Dir >>,
           << <<root_path, sub, a_pdf>>, File(<<root_path, sub, a_pdf>>) >> })

FS_collision ==
    Tree({ << << >>, Dir >>, << <<root_path>>, Dir >>,
           << <<root_path, b_txt>>, File(<<root_path, b_txt>>) >>,
           << <<root_path, c_xyz>>, File(<<root_path, c_xyz>>) >>,
           << <<root_path, Docs>>, Dir >>,
           << <<root_path, Docs, b_txt>>, File(<<root_path, Docs, b_txt>>) >> })

FS_blocked ==
    Tree({ << << >>, Dir >>, << <<root_path>>, Dir >>,
           << <<root_path, a_pdf>>, File(<<root_path, a_pdf>>) >>,
           << <<root_path, b_txt>>, File(<<root_path, b_txt>>) >>,
           << <<root_path, Docs>>, File(<<root_path, Docs>>) >> })

FS_dotfile ==
    Tree({ << << >>, Dir >>, << <<root_path>>, Dir >>,
           << <<root_path, b_txt>>, File(<<root_path, b_txt>>) >>,
           << <<root_path, dot_pdf>>, File(<<root_path, dot_pdf>>) >>,
           << <<root_path, e_tar_gz>>, File(<<root_path, e_tar_gz>>) >>,
           << <<root_path, Docs>>, Dir >>,
           << <<root_path, Docs, b_txt>>, Dir >> })

\* The directory to organize is missing, or is a file.
FS_noroot ==
    Tree({ << << >>, Dir >>,
           << <<a_pdf>>, File(<<a_pdf>>) >> })

FS_rootfile ==
    Tree({ << << >>, Dir >>,
           << <<root_path>>, File(<<root_path>>) >>,
           << <<a_pdf>>, File(<<a_pdf>>) >> })

FileSystems ==
    { FS_mixed, FS_collision, FS_blocked, FS_dotfile, FS_noroot, FS_rootfile }

\* The configurations the relocation runs are explored under.
RunConfigFiles == { CfgGarbage, CfgMisc, CfgHere, CfgUpper }

CustomFiles == { CfgMissing, CfgGarbage, CfgHeic, CfgTopInt, CfgExtInt }

Scenarios ==
    (ConfigFiles \X {NoCustom} \X {FS_mixed})
    \cup ({CfgGarbage, CfgHeic} \X CustomFiles \X {FS_mixed})
    \cup (RunConfigFiles \X {NoCustom} \X FileSystems)

\* The scenarios of repeated runs.
RerunScenarios ==
    ({CfgGarbage, CfgHere} \X {NoCustom} \X {FS_collision, FS_blocked})
    \cup ({CfgMisc} \X {NoCustom} \X {FS_blocked})
    \cup ({CfgGarbage} \X {NoCustom} \X {FS_mixed})

\* Arguments of direct calls.
ProbeNames ==
    { a_pdf, A_PDF, b_txt, c_xyz, readme, dot_pdf, zz_pdf, e_tar_gz, sub,
      sub_a_pdf, Docs }
DirectNames == { a_pdf, zz_pdf, sub }
DirectDests == { Docs_PDF, sub }
DirectLists ==
    UNION { [1..n -> DirectNames] : n \in 0..MaxListLen }

(* ---------------------------------------------------------------------- *)
(* State                                                                   *)
(* ---------------------------------------------------------------------- *)
VARIABLES
    config_file,     \* CONFIG_FILE on disk
    custom_file,     \* the file named by --config, or NoCustom
    config,          \* module global config
    default_table,   \* module global DEFAULT_FILE_CATEGORIES
    FILE_CATEGORIES, \* module global FILE_CATEGORIES
    dir_map,         \* module global dir_map
    fs,              \* the filesystem
    pc,              \* where the program is
    error,           \* the exception that ended the program, "" if none
    dry_run,         \* organize's dry_run argument
    files_by_dir,    \* organize's files_by_dir
    skipped_files,   \* organize's skipped_files
    total_files,     \* organize's total_files
    cat_idx,         \* position of organize's loop over files_by_dir
    frame,           \* the running process_directory call
    caller,          \* who called process_directory: "organize" or "direct"
    cat_result,      \* the last direct categorize_file call and its result
    pd_result,       \* what the last process_directory call returned
    summary,         \* what display_summary was given
    history          \* observations: the configuration file and the
                     \* filesystem at the start, the filesystem on entry
                     \* of process_directory, the scan's unclassified
                     \* list, the failures so far, the last move attempted

vars == << config_file, custom_file, config, default_table, FILE_CATEGORIES, dir_map, fs, pc,
           error, dry_run, files_by_dir, skipped_files, total_files, cat_idx,
           frame, caller, cat_result, pd_result, summary, history >>

globals ==
    << config_file, custom_file, config, default_table, FILE_CATEGORIES, dir_map >>
locals == << dry_run, files_by_dir, skipped_files, total_files, cat_idx >>

NoFrame == process_directory_enter(<< >>, << >>, TRUE)
NoCatResult == [called |-> FALSE, file |-> << >>, dest |-> << >>, ok |-> FALSE]
NoPdResult ==
    [returned |-> FALSE, frame |-> NoFrame, fs_before |-> << >>, fs_after |-> << >>]
NoSummary ==
    [shown |-> FALSE, action |-> "", total_files |-> 0, skipped |-> << >>]
NoMove ==
    [made |-> FALSE, file |-> << >>, dest_dir |-> << >>, ok |-> FALSE,
     dry_run |-> TRUE, before |-> << >>, after |-> << >>]

InitFrom(scenarios) ==
    /\ \E sc \in scenarios :
          /\ config_file = sc[1]
          /\ custom_file = sc[2]
          /\ fs = sc[3]
    /\ config = EmptyConfig
    /\ default_table = DEFAULT_FILE_CATEGORIES
    /\ FILE_CATEGORIES = << >>
    /\ dir_map = << >>
    /\ pc = "import"
    /\ error = ""
    /\ dry_run = FALSE
    /\ files_by_dir = << >>
    /\ skipped_files = << >>
    /\ total_files = 0
    /\ cat_idx = 1
    /\ frame = NoFrame
    /\ caller = ""
    /\ cat_result = NoCatResult
    /\ pd_result = NoPdResult
    /\ summary = NoSummary
    /\ history = [cfg0 |-> config_file, fs0 |-> fs, listing |-> << >>,
                  entry |-> fs, unclassified |-> << >>, failed |-> << >>,
                  move |-> NoMove, denied |-> FALSE, run |-> 0, log |-> << >>,
                  prev |-> << >>]

Init == InitFrom(Scenarios)

\* The files of a log whose move failed, in the order they were tried.
FailedOf(log) ==
    LET bad == SelectSeq(log, LAMBDA e : ~e.ok)
    IN  [i \in 1..Len(bad) |-> bad[i].file]

\* config -> FILE_CATEGORIES -> dir_map, or the exception raised on the way.
configure(defaults, cfg) ==
    LET m == merge_categories(defaults, cfg)
        b == build_extension_map(m.val)
    IN  IF m.err # ""
        THEN [err |-> m.err, table |-> << >>, index |-> << >>, defaults |-> m.defaults]
        ELSE IF b.err # ""
        THEN [err |-> b.err, table |-> m.val, index |-> << >>, defaults |-> m.defaults]
        ELSE [err |-> "", table |-> m.val, index |-> b.val, defaults |-> m.defaults]

\* Module import: config = load_config(); FILE_CATEGORIES = ...; dir_map = ...
ImportModule ==
    /\ pc = "import"
    /\ \E can_write \in BOOLEAN :
          LET l == load_config(config_file, can_write)
              c == configure(default_table, l.config)
          IN  /\ config_file' = l.file
              /\ config' = l.config
              /\ default_table' = c.defaults
              /\ IF c.err # ""
                 THEN /\ pc' = "crashed"
                      /\ error' = c.err
                      /\ UNCHANGED << FILE_CATEGORIES, dir_map >>
                 ELSE /\ pc' = "main"
                      /\ FILE_CATEGORIES' = c.table
                      /\ dir_map' = c.index
                      /\ UNCHANGED error
    /\ UNCHANGED << custom_file, fs, locals, frame, caller, cat_result,
                    pd_result, summary, history >>

\* main: if args.config, the three globals are rebuilt from that file.
MainConfig ==
    /\ pc = "main"
    /\ IF custom_file = NoCustom
       THEN /\ pc' = "ready"
            /\ UNCHANGED << config, default_table, FILE_CATEGORIES, dir_map, error >>
       ELSE LET cfg == load_config_from_path(custom_file)
                c == configure(default_table, cfg)
            IN  /\ config' = cfg
                /\ default_table' = c.defaults
                /\ IF c.err # ""
                   THEN /\ pc' = "crashed"
                        /\ error' = c.err
                        /\ UNCHANGED << FILE_CATEGORIES, dir_map >>
                   ELSE /\ pc' = "ready"
                        /\ FILE_CATEGORIES' = c.table
                        /\ dir_map' = c.index
                        /\ UNCHANGED error
    /\ UNCHANGED << config_file, custom_file, fs, locals, frame, caller,
                    cat_result, pd_result, summary, history >>

\* A direct call categorize_file(file, path).
CallCategorizeFile ==
    /\ pc = "ready"
    /\ \E file \in ProbeNames :
          LET c == categorize_file(fs, dir_map, file, root_path)
          IN  cat_result' = [called |-> TRUE, file |-> file,
                             dest |-> c[1], ok |-> c[2]]
    /\ pc' = "returned"
    /\ UNCHANGED << globals, fs, error, locals, frame, caller, pd_result,
                    summary, history >>

\* A direct call process_directory(path, dest_dir, files, dry_run).
CallProcessDirectory ==
    /\ pc = "ready"
    /\ \E dest_dir \in DirectDests, files \in DirectLists, dry \in BOOLEAN :
          frame' = process_directory_enter(dest_dir, files, dry)
    /\ caller' = "direct"
    /\ pc' = "process_directory"
    /\ history' = [history EXCEPT !.fs0 = fs, !.entry = fs]
    /\ UNCHANGED << globals, fs, error, locals, cat_result, pd_result, summary >>

\* organize: files_by_dir, skipped_files = analyze_files(path); total_files = 0
ScanStep(dry) ==
    \E denied \in BOOLEAN, listing \in Listings(fs, root_path) :
       LET r == analyze_files_or_raise(fs, dir_map, root_path, listing, denied)
       IN  /\ dry_run' = dry
           /\ files_by_dir' = r.files_by_dir
           /\ skipped_files' = r.skipped_files
           /\ total_files' = 0
           /\ cat_idx' = 1
           /\ pc' = IF r.err # "" THEN "crashed" ELSE "organize"
           /\ error' = r.err
           /\ history' = [history EXCEPT
                            !.fs0 = fs, !.listing = listing,
                            !.unclassified = r.skipped_files,
                            !.failed = << >>, !.log = << >>,
                            !.denied = denied, !.run = @ + 1,
                            !.move = NoMove, !.prev = history.log]
           /\ caller' = "organize"
           /\ pd_result' = NoPdResult
           /\ summary' = NoSummary
           /\ UNCHANGED << globals, fs, frame, cat_result >>

\* A call organize(path, dry_run).
OrganizeScan ==
    /\ pc = "ready"
    /\ \E dry \in BOOLEAN : ScanStep(dry)

\* organize: the next category of files_by_dir, if files: process_directory(...)
OrganizeNext ==
    /\ pc = "organize"
    /\ cat_idx <= Len(files_by_dir)
    /\ IF files_by_dir[cat_idx].files # << >>
       THEN /\ frame' = process_directory_enter(files_by_dir[cat_idx].dest,
                                                files_by_dir[cat_idx].files, dry_run)
            /\ pc' = "process_directory"
            /\ history' = [history EXCEPT !.entry = fs]
            /\ UNCHANGED cat_idx
       ELSE /\ cat_idx' = cat_idx + 1
            /\ UNCHANGED << frame, pc, history >>
    /\ UNCHANGED << globals, fs, error, dry_run, files_by_dir, skipped_files,
                    total_files, caller, cat_result, pd_result, summary >>

\* process_directory: one file of sorted(files).
ProcessFile ==
    /\ pc = "process_directory"
    /\ frame.i <= Len(frame.files)
    /\ \E fault \in Faults :
          LET r == process_directory_step(fs, frame, root_path, fault)
          IN  /\ fs' = r.fs
              /\ frame' = r.frame
              /\ history' = [history EXCEPT !.move =
                    [made |-> TRUE, file |-> frame.files[frame.i],
                     dest_dir |-> frame.dest_dir,
                     ok |-> r.frame.moved_count > frame.moved_count,
                     dry_run |-> frame.dry_run, before |-> fs, after |-> r.fs],
                    !.log = IF caller = "organize"
                            THEN Append(@, [file |-> frame.files[frame.i],
                                            dest_dir |-> frame.dest_dir,
                                            ok |-> r.frame.moved_count > frame.moved_count])
                            ELSE @]
    /\ UNCHANGED << globals, pc, error, locals, caller, cat_result, pd_result,
                    summary >>

\* process_directory: return moved_count, failed_files; in organize the
\* counts are accumulated and the failures appended to skipped_files.
ProcessDirectoryReturn ==
    /\ pc = "process_directory"
    /\ frame.i > Len(frame.files)
    /\ pd_result' = [returned |-> TRUE, frame |-> frame,
                      fs_before |-> history.entry, fs_after |-> fs]
    /\ IF caller = "organize"
       THEN LET acc == organize_accumulate(total_files, skipped_files, frame)
            IN  /\ total_files' = acc.total_files
                /\ skipped_files' = acc.skipped_files
                /\ cat_idx' = cat_idx + 1
                /\ pc' = "organize"
                /\ history' = [history EXCEPT !.failed = @ \o FailedOf(frame.log)]
       ELSE /\ pc' = "returned"
            /\ UNCHANGED << total_files, skipped_files, cat_idx, history >>
    /\ frame' = NoFrame
    /\ UNCHANGED << globals, fs, error, dry_run, files_by_dir, caller,
                    cat_result, summary >>

\* organize: display_summary(total_files, skipped_files, dry_run)
DisplaySummary ==
    /\ pc = "organize"
    /\ cat_idx > Len(files_by_dir)
    /\ summary' = [shown |-> TRUE] @@ display_summary(total_files, skipped_files, dry_run)
    /\ pc' = "done"
    /\ UNCHANGED << globals, fs, error, locals, frame, caller, cat_result,
                    pd_result, history >>

\* organize(path) once more on the directory the last run left, with the
\* same table.
OrganizeAgain ==
    /\ pc = "done"
    /\ caller = "organize"
    /\ ~dry_run
    /\ history.run < MaxRuns
    /\ ScanStep(FALSE)

Next ==
    \/ ImportModule
    \/ MainConfig
    \/ CallCategorizeFile
    \/ CallProcessDirectory
    \/ OrganizeScan
    \/ OrganizeNext
    \/ ProcessFile
    \/ ProcessDirectoryReturn
    \/ DisplaySummary

Spec == Init /\ [][Next]_vars

\* The program run again and again on the directory it has organized.
InitRerun == InitFrom(RerunScenarios)

NextRerun ==
    \/ ImportModule
    \/ MainConfig
    \/ OrganizeScan
    \/ OrganizeNext
    \/ ProcessFile
    \/ ProcessDirectoryReturn
    \/ DisplaySummary
    \/ OrganizeAgain

SpecRerun == InitRerun /\ [][NextRerun]_vars

(* ---------------------------------------------------------------------- *)
(* Properties                                                              *)
(* ---------------------------------------------------------------------- *)
Range(seq) == { seq[i] : i \in 1..Len(seq) }
Count(seq, x) == Cardinality({ i \in 1..Len(seq) : seq[i] = x })

\* organize has scanned and not failed.
InOrganize ==
    caller = "organize" /\ pc \in {"organize", "process_directory", "done"}

\* The entry names of the directory when organize scanned it.
Children == listdir_names(history.fs0, root_path)

\* Where move_file puts file for the category directory dest_dir.
Source(file) == resolve(os_path_join(root_path, file))
Destination(dest_dir, file) ==
    resolve(os_path_join(os_path_join(root_path, dest_dir), file))

\* C1 (dry-run purity): from the scan of organize(path, dry_run=True) to its
\* summary the filesystem is the one the call found: every entry is where it
\* was, with what it held, and no directory has been created.
C1_DryRunPurity ==
    (InOrganize /\ dry_run) => fs = history.fs0

\* A dry run that reached its summary having counted files it would move.
C1_Witness ==
    /\ InOrganize /\ dry_run /\ pc = "done"
    /\ total_files > 0
    /\ \E c \in 1..Len(files_by_dir) :
          Destination(files_by_dir[c].dest, files_by_dir[c].files[1]) \notin DOMAIN fs

\* The places of the scan result that hold name.
Placements(name) ==
    { ci \in UNION { { << c, i >> : i \in 1..Len(files_by_dir[c].files) } :
                     c \in 1..Len(files_by_dir) } :
        files_by_dir[ci[1]].files[ci[2]] = name }

\* C2 (partition completeness): every child of the scanned directory is at
\* exactly one place of analyze_files' result, in one category list or in
\* the unclassified list; the result holds no other name, and no category
\* has two lists.
C2_PartitionCompleteness ==
    InOrganize =>
        /\ \A n \in Children :
              Cardinality(Placements(n)) + Count(history.unclassified, n) = 1
        /\ \A c \in 1..Len(files_by_dir) : Range(files_by_dir[c].files) \subseteq Children
        /\ Range(history.unclassified) \subseteq Children
        /\ \A c1, c2 \in 1..Len(files_by_dir) :
              files_by_dir[c1].dest = files_by_dir[c2].dest => c1 = c2

\* A scan that put two files in one category and left others unclassified.
C2_Witness ==
    /\ InOrganize
    /\ \E c \in 1..Len(files_by_dir) : Len(files_by_dir[c].files) >= 2
    /\ Len(history.unclassified) >= 2

IsSorted(seq) == \A i \in 1..(Len(seq) - 1) : ~str_less(seq[i + 1], seq[i])

\* C3 (partial failure isolation): when process_directory returns from a
\* call with dry_run=False, every filename given was tried, whatever failed
\* before it; every file whose move succeeded was put at its destination;
\* moved_count counts the successes, failed_files is the failures in
\* lexicographic order, and the two add up to the number of filenames.
C3_PartialFailureIsolation ==
    (pd_result.returned /\ ~pd_result.frame.dry_run) =>
        LET fr == pd_result.frame
        IN  /\ Len(fr.log) = Len(fr.given)
            /\ \A n \in Range(fr.given) : Count(fr.given, n) =
                   Cardinality({ i \in 1..Len(fr.log) : fr.log[i].file = n })
            /\ fr.moved_count = Cardinality({ i \in 1..Len(fr.log) : fr.log[i].ok })
            /\ fr.failed_files = FailedOf(fr.log)
            /\ IsSorted(fr.failed_files)
            /\ fr.moved_count + Len(fr.failed_files) = Len(fr.given)
            /\ \A i \in 1..Len(fr.log) :
                  fr.log[i].ok =>
                      /\ Destination(fr.dest_dir, fr.log[i].file) \in DOMAIN pd_result.fs_after
                      /\ pd_result.fs_after[Destination(fr.dest_dir, fr.log[i].file)]
                           = pd_result.fs_before[Source(fr.log[i].file)]

\* A call in which a move failed and a later one succeeded.
C3_Witness ==
    /\ pd_result.returned /\ ~pd_result.frame.dry_run
    /\ \E i, j \in 1..Len(pd_result.frame.log) :
          /\ i < j
          /\ ~pd_result.frame.log[i].ok
          /\ pd_result.frame.log[j].ok
          /\ Source(pd_result.frame.log[j].file) \notin DOMAIN pd_result.fs_after

\* The filenames the scan classified.
Classified == { n \in Children : Placements(n) # {} }

Configured == pc \in {"main", "ready"}

\* The user table of config: the items of its file_categories.
UserItems ==
    IF /\ config.t = "dict"
       /\ dict_has(config.items, KEY_file_categories)
       /\ dict_get(config.items, KEY_file_categories).t = "dict"
    THEN dict_get(config.items, KEY_file_categories).items
    ELSE << >>

\* The lowercased extensions a category's value claims.
ClaimedBy(v) ==
    { str_lower(x.s) : x \in { y \in Range(iterate(v).val) : y.t = "str" } }

\* C5 (override replacement): after merge_categories every category of the
\* user table has exactly the user's value, every other default category
\* its default list, there is no further category, and the built-in table
\* is as it was; an extension of an overridden default category that no
\* category of the merged table claims is no key of the index.
C5_OverrideReplaces ==
    Configured =>
        /\ \A u \in Range(UserItems) :
              dict_has(FILE_CATEGORIES, u.k) /\ dict_get(FILE_CATEGORIES, u.k) = u.val
        /\ \A d \in Range(DEFAULT_FILE_CATEGORIES) :
              ~dict_has(UserItems, d.k) =>
                  dict_has(FILE_CATEGORIES, d.k) /\ dict_get(FILE_CATEGORIES, d.k) = d.val
        /\ \A m \in Range(FILE_CATEGORIES) :
              dict_has(DEFAULT_FILE_CATEGORIES, m.k) \/ dict_has(UserItems, m.k)
        /\ default_table = DEFAULT_FILE_CATEGORIES
        /\ \A u \in Range(UserItems) :
              dict_has(DEFAULT_FILE_CATEGORIES, u.k) =>
                  \A e \in ClaimedBy(dict_get(DEFAULT_FILE_CATEGORIES, u.k)) :
                      (\A m \in Range(FILE_CATEGORIES) : e \notin ClaimedBy(m.val))
                          => e \notin DOMAIN dir_map

\* Images overridden by a list without .jpg: .jpg is a miss, .heic a hit.
C5_Witness ==
    /\ pc = "ready"
    /\ dict_has(UserItems, Images)
    /\ dict_get(UserItems, Images).items # << >>
    /\ <<".","j","p","g">> \notin DOMAIN dir_map
    /\ <<".","h","e","i","c">> \in DOMAIN dir_map
    /\ dir_map[<<".","h","e","i","c">>] = Images

\* C6 (case-insensitivity): no key of the index has an upper-case letter,
\* and two names of regular files that differ only in letter case get the
\* same result of categorize_file.
C6_CaseInsensitive ==
    Configured =>
        /\ \A k \in DOMAIN dir_map : \A i \in 1..Len(k) : ~IsUpper(k[i])
        /\ \A n1, n2 \in ProbeNames :
              ( /\ str_lower(n1) = str_lower(n2)
                /\ os_path_isfile(fs, os_path_join(root_path, n1))
                /\ os_path_isfile(fs, os_path_join(root_path, n2)) )
              => categorize_file(fs, dir_map, n1, root_path)
                   = categorize_file(fs, dir_map, n2, root_path)

\* categorize_file("A.PDF") returned the category that "a.pdf" gets.
C6_Witness ==
    /\ cat_result.called /\ cat_result.file = A_PDF /\ cat_result.ok
    /\ os_path_isfile(fs, os_path_join(root_path, a_pdf))
    /\ categorize_file(fs, dir_map, a_pdf, root_path) = << cat_result.dest, TRUE >>

\* C7 as the specification states it: categorize_file leaves every regular
\* file whose name has no '.' unclassified, whatever the table holds.
C7_NoExtensionRule ==
    ( /\ cat_result.called
      /\ "." \notin Range(cat_result.file)
      /\ os_path_isfile(fs, os_path_join(root_path, cat_result.file)) )
    => (~cat_result.ok /\ cat_result.dest = << >>)

\* The last move, made by organize without dry_run, succeeded.
MovedByOrganize ==
    /\ caller = "organize"
    /\ history.move.made /\ ~history.move.dry_run /\ history.move.ok

\* After the last move: the file is at root_path/<category>/<filename> with
\* what it held (whatever was there before), every directory on the way
\* exists, and nothing is left at root_path/<filename>.
Relocated ==
    LET mv == history.move
        src == Source(mv.file)
        dst == Destination(mv.dest_dir, mv.file)
    IN  /\ dst = << root_path >> \o resolve(mv.dest_dir) \o << mv.file >>
        /\ dst \in DOMAIN mv.after
        /\ mv.after[dst] = mv.before[src]
        /\ \A n \in 0..(Len(dst) - 1) :
              /\ SubSeq(dst, 1, n) \in DOMAIN mv.after
              /\ mv.after[SubSeq(dst, 1, n)].kind = "dir"
        /\ src \notin DOMAIN mv.after

\* C8 as the specification states it: every successful move of organize
\* relocates the file.
C8_SuccessfulMoveRelocates ==
    MovedByOrganize => Relocated

\* C8 (amended): a successful move of organize relocates the file when the
\* category names a directory other than root_path itself; for a category
\* that resolves to root_path ("" or "."), the move succeeds and changes
\* nothing: the file is still at root_path/<filename>.
C8_MoveRelocatesUnlessCategoryIsRoot ==
    MovedByOrganize =>
        IF resolve(history.move.dest_dir) # << >>
        THEN Relocated
        ELSE /\ history.move.after = history.move.before
             /\ Source(history.move.file) \in DOMAIN history.move.after

\* A move that replaced a file of the same name at the destination.
C8_Witness ==
    /\ MovedByOrganize
    /\ resolve(history.move.dest_dir) # << >>
    /\ Destination(history.move.dest_dir, history.move.file) \in DOMAIN history.move.before
    /\ history.move.before[Destination(history.move.dest_dir, history.move.file)]
         # history.move.before[Source(history.move.file)]

\* C9 as the specification states it: categorize_file returns ("", False)
\* for every name that is not a regular file directly under root_path.
C9_FailsClosed ==
    ( /\ cat_result.called
      /\ ~( /\ << root_path, cat_result.file >> \in DOMAIN fs
            /\ fs[<< root_path, cat_result.file >>].kind = "file" ) )
    => (~cat_result.ok /\ cat_result.dest = << >>)

\* The configuration input the table and index were last built from.
ConfigInput == IF pc = "main" \/ custom_file = NoCustom THEN history.cfg0 ELSE custom_file

\* C10 as the specification states it: an absent or malformed configuration
\* input raises nothing and gives the table and index of no overrides.
C10_ConfigMissNeverFatal ==
    (pc # "import" /\ ConfigInput \in MalformedConfigFiles) =>
        /\ error = ""
        /\ FILE_CATEGORIES = DEFAULT_FILE_CATEGORIES
        /\ dir_map = build_extension_map(DEFAULT_FILE_CATEGORIES).val

\* The positions of the categories of table that claim extension e.
Claimants(table, e) == { i \in 1..Len(table) : e \in ClaimedBy(table[i].val) }

\* The lowercased extensions some category of table claims.
ClaimedIn(table) == UNION { ClaimedBy(table[i].val) : i \in 1..Len(table) }

Unique(table) == \A e \in ClaimedIn(table) : Cardinality(Claimants(table, e)) = 1

Last(S) == CHOOSE i \in S : \A j \in S : j <= i

\* C11 as the specification states it: in the table merge_categories
\* resolves, whatever the user table, no two categories claim the same
\* lowercased extension.
C11_ExtensionUniqueness ==
    Configured => Unique(FILE_CATEGORIES)

\* C11 (amended): the built-in table is free of collisions, so without user
\* overrides every extension is claimed by exactly one category;
\* merge_categories does not check a user table, which may claim an extension
\* that another category claims, and the index then maps every claimed
\* extension to the last category, in table order, that claims it.
C11_UniqueByDefaultLastWins ==
    Configured =>
        /\ UserItems = << >> =>
              (FILE_CATEGORIES = DEFAULT_FILE_CATEGORIES /\ Unique(FILE_CATEGORIES))
        /\ DOMAIN dir_map = ClaimedIn(FILE_CATEGORIES)
        /\ \A e \in DOMAIN dir_map :
              dir_map[e] =
                 str_replace(FILE_CATEGORIES[Last(Claimants(FILE_CATEGORIES, e))].k,
                             "/", os_sep)

\* A user table gave .pdf to Images as well: the index sends .pdf to Images.
C11_Witness ==
    /\ Configured
    /\ Cardinality(Claimants(FILE_CATEGORIES, <<".","p","d","f">>)) = 2
    /\ dir_map[<<".","p","d","f">>] = Images

\* C12 (unreadable root is fatal and free of effects): organize gets past
\* its scan only when root_path was a directory that could be listed;
\* otherwise the error of os.listdir ends the call: nothing is moved or
\* created, no summary is shown, and nothing is recorded as skipped or
\* failed.
C12_UnreadableRootIsFatal ==
    /\ InOrganize =>
          (os_path_isdir(history.fs0, root_path) /\ ~history.denied)
    /\ (caller = "organize" /\ pc = "crashed") =>
          /\ ~os_path_isdir(history.fs0, root_path) \/ history.denied
          /\ error = "OSError"
          /\ fs = history.fs0
          /\ files_by_dir = << >>
          /\ skipped_files = << >>
          /\ history.failed = << >>
          /\ history.log = << >>
          /\ total_files = 0

\* organize ended with the error, for a root_path that is not there.
C12_Witness ==
    /\ caller = "organize" /\ pc = "crashed" /\ error = "OSError"
    /\ ~dry_run
    /\ root_path \notin listdir_names(fs, << >>)

\* categorize_file was called for a regular file directly under root_path
\* whose name has a '.'.
CalledForDottedFile ==
    /\ cat_result.called
    /\ "." \in Range(cat_result.file)
    /\ << root_path, cat_result.file >> \in DOMAIN fs
    /\ fs[<< root_path, cat_result.file >>].kind = "file"

\* The result of categorize_file is that of looking e up in the index.
LookedUpAs(e) ==
    IF str_lower(e) \in DOMAIN dir_map
    THEN cat_result.ok /\ cat_result.dest = dir_map[str_lower(e)]
    ELSE ~cat_result.ok /\ cat_result.dest = << >>

\* The name from its last '.' on.
FromLastDot(name) == SubSeq(name, rfind(name, "."), Len(name))

\* The name from its last '.' on when a character other than '.' comes
\* before that dot, the empty string otherwise.
ExtensionOf(name) ==
    IF \E k \in 1..(rfind(name, ".") - 1) : name[k] # "."
    THEN FromLastDot(name)
    ELSE << >>

\* C13 as the specification states it: for a regular file whose name has a
\* '.', categorize_file looks up the lowercased name from its last '.' on,
\* also when the only '.' is the first character.
C13_LooksUpFromLastDot ==
    CalledForDottedFile => LookedUpAs(FromLastDot(cat_result.file))

\* C13 (amended): for a regular file whose name has a '.', categorize_file
\* looks up the lowercased name from its last '.' on, provided a character
\* other than '.' comes before that dot; a name with leading dots only
\* (".pdf") has the empty extension and is looked up as "".
C13_LooksUpSplitextExtension ==
    CalledForDottedFile => LookedUpAs(ExtensionOf(cat_result.file))

\* The file ".pdf" was left unclassified though .pdf is a key of the index.
C13_Witness ==
    /\ CalledForDottedFile
    /\ cat_result.file = dot_pdf
    /\ ~cat_result.ok
    /\ dot_pdf \in DOMAIN dir_map

\* organize has been called again on the directory its last run left.
Rerun == caller = "organize" /\ history.run >= 2

\* What the run before this one moved: the log entries that succeeded.
MovedBefore == { e \in Range(history.prev) : e.ok }

\* The run before this one had no failures.
CleanBefore == \A e \in Range(history.prev) : e.ok

\* The paths of filesystem f that hold the file that was root_path/<file>
\* when the program started.
PathsOf(f, file) ==
    { p \in DOMAIN f : f[p] = File(<< root_path, file >>) }

\* The file of e is at the place the run before put it, and nowhere else,
\* as it was when this run scanned.
StaysPut(e) ==
    /\ PathsOf(fs, e.file) = { Destination(e.dest_dir, e.file) }
    /\ PathsOf(history.fs0, e.file) = { Destination(e.dest_dir, e.file) }

\* The file of e is no child of root_path (an entry of its name, if there
\* is one, is something else), is not classified by this run's scan and is
\* not handed to move_file by this run.
NotRescanned(e) ==
    /\ Source(e.file) \notin PathsOf(history.fs0, e.file)
    /\ Placements(e.file) = {}
    /\ \A i \in 1..Len(history.log) : history.log[i].file # e.file

\* This run classifies nothing and moves nothing.
MovesNothing ==
    /\ files_by_dir = << >>
    /\ history.log = << >>
    /\ total_files = 0
    /\ fs = history.fs0

\* C14 as the specification states it: a second organize(path) relocates
\* none of the files the first run moved, which are no longer children of
\* root_path and stay where they are, and moves zero files when the first
\* run had no failures.
C14_RerunIsNoOp ==
    Rerun =>
        /\ \A e \in MovedBefore : NotRescanned(e) /\ StaysPut(e)
        /\ CleanBefore => MovesNothing

\* C14 (amended): the files the first run moved into a category that names
\* a directory other than root_path are not rescanned by a second run and
\* stay where they are; a file "moved" into a category that resolves to
\* root_path stays at root_path/<filename>; when the first run had no
\* failures and moved nothing into such a category the second run moves
\* zero files.
C14_RerunIsNoOpUnlessCategoryIsRoot ==
    Rerun =>
        /\ \A e \in MovedBefore :
              /\ StaysPut(e)
              /\ resolve(e.dest_dir) # << >> => NotRescanned(e)
        /\ ( /\ CleanBefore
             /\ \A e \in MovedBefore : resolve(e.dest_dir) # << >> )
           => MovesNothing

\* A second run that ended having moved nothing, after a first run that
\* moved a file into a category directory and had no failures.
C14_Witness ==
    /\ Rerun /\ pc = "done"
    /\ CleanBefore
    /\ \E e \in MovedBefore :
          /\ resolve(e.dest_dir) # << >>
          /\ Destination(e.dest_dir, e.file) \in DOMAIN fs
    /\ MovesNothing
    /\ summary.total_files = 0

\* The category directory the scan put name under.
CategoryOf(name) ==
    files_by_dir[(CHOOSE ci \in Placements(name) : TRUE)[1]].dest

\* The entries of this run's log for name.
Tried(name) == { i \in 1..Len(history.log) : history.log[i].file = name }

\* name is in a list of failures: that of the running process_directory
\* call, or skipped_files once the call has returned.
RecordedAsFailed(name) ==
    \/ name \in Range(frame.failed_files)
    \/ name \in Range(skipped_files) /\ name \notin Range(history.unclassified)

\* C15 (filesystem consistency at every intermediate state): in every state
\* of organize(path, dry_run=False) from the scan on, before and after each
\* move_file call, every scanned file the scan classified is at exactly one
\* path: root_path/<category>/<filename> when its move has succeeded,
\* root_path/<filename> with what it held otherwise; a file whose move has
\* failed is recorded as failed; entries the scan left unclassified are
\* untouched.  "The file" is the scanned file itself: another file of the
\* same name that was at the destination before the move is not a copy of it.
C15_OneLocationAtEveryStep ==
    (InOrganize /\ ~dry_run) =>
        /\ \A n \in Classified :
              LET src == Source(n)
                  dst == Destination(CategoryOf(n), n)
                  at == PathsOf(fs, n)
              IN  /\ Cardinality(Tried(n)) <= 1
                  /\ Cardinality(at) = 1
                  /\ at \subseteq { src, dst }
                  /\ \A i \in Tried(n) :
                        IF history.log[i].ok
                        THEN at = { dst }
                        ELSE at = { src } /\ RecordedAsFailed(n)
                  /\ Tried(n) = {} =>
                        /\ at = { src }
                        /\ fs[src] = history.fs0[src]
                        /\ ~RecordedAsFailed(n)
        /\ \A n \in Children \ Classified :
              /\ Source(n) \in DOMAIN fs
              /\ fs[Source(n)] = history.fs0[Source(n)]

\* Between two moves: one file has been moved into its category directory,
\* another has failed and is still at root_path, a third is yet to be tried.
C15_Witness ==
    /\ InOrganize /\ ~dry_run /\ pc \in {"organize", "process_directory"}
    /\ \E a, b, c \in Classified :
          /\ \E i \in Tried(a) : history.log[i].ok
          /\ PathsOf(fs, a) = { Destination(CategoryOf(a), a) }
          /\ Source(a) \notin DOMAIN fs
          /\ \E i \in Tried(b) : ~history.log[i].ok
          /\ PathsOf(fs, b) = { Source(b) }
          /\ Tried(c) = {}
          /\ PathsOf(fs, c) = { Source(c) }

====
